---------------------------- MODULE Spec2Model ----------------------------
(***************************************************************************)
(* Model of gymBroServer.go: the Controller that owns one Storage          *)
(* snapshot (users, swipes, matches), its HTTP handlers Swipe, AddProfile, *)
(* GetNextUser, GetMatches and GetUsers, saveData, which rewrites the      *)
(* data file with the whole snapshot, and NewController with loadData.     *)
(*                                                                         *)
(* Handlers are modelled from the point where the request has been         *)
(* decoded (method and body/path parsing are the transport layer).         *)
(* Spec runs the swipe engine and the reads one request at a time.         *)
(* SpecProfiles runs AddProfile alone, SpecAll all handlers, SpecStart     *)
(* the start of the process over the data file.  SpecConc runs two         *)
(* handler goroutines whose reads and writes of c.storage interleave, as   *)
(* net/http serves every request on its own goroutine and Controller has   *)
(* no lock; SpecConcSaved is SpecConc with no failing save.                *)
(***************************************************************************)
EXTENDS Integers, Sequences, FiniteSets, TLC

VARIABLES
    storage,    \* c.storage: [Users, Swipes, Matches], three slices
    file,       \* c.dataFile on disk: [kind, data], see the file contents
    now,        \* the clock behind time.Now().UnixMilli()
    resp,       \* the exchange handled last: the request and its response
    proc,       \* per handler goroutine: its position and its local variables
    started,    \* requests handed to a goroutine so far
    acked       \* the Swipe requests answered with success: true, in order

concVars == <<proc, started, acked>>
vars     == <<storage, file, now, resp, proc, started, acked>>

-----------------------------------------------------------------------------
(* Bounds of the model.                                                    *)

\* Longest swipe ledger explored by the sequential specification.
MaxSwipes == 3

\* Requests served by the concurrent specification.
MaxRequests == 2

\* Most profiles in the specification of AddProfile alone.
MaxUsers == 6

\* Longest ledger and most profiles in the specification of all handlers.
MaxAllSwipes == 2
MaxAllUsers  == 4

\* The specification of start-up starts the process again only while the
\* clock is below this.
MaxRestartClock == 6

\* Width in bits of a profile identifier.  The source's int64 is narrowed so
\* that its largest and smallest values are within reach of TLC; the
\* arithmetic wraps the same way.
IdBits == 4
MinId  == -(2 ^ (IdBits - 1))
MaxId  == 2 ^ (IdBits - 1) - 1

\* Identifiers a request may carry: two of the seeded users and 0, which is
\* the identifier of no profile.  Profile 3 stays a bystander that sends no
\* request and that nobody swipes on: it is there for the candidate scan.
ReqIds == {0, 1, 2}

-----------------------------------------------------------------------------
(* Data: the structs of the source.                                        *)

User(id, image, info) == [id |-> id, imageUrl |-> image, info |-> info]

\* The default dataset NewController installs when loadData fails.
SeedUsers ==
    << User(1, "/images/cat.jpeg", "seed"),
       User(2, "/images/dog.jpeg", "seed"),
       User(3, "/images/myles.jpeg", "seed") >>

SeedStorage == [Users |-> SeedUsers, Swipes |-> <<>>, Matches |-> <<>>]

\* The zero value of Storage.
ZeroStorage == [Users |-> <<>>, Swipes |-> <<>>, Matches |-> <<>>]

SwipeRequest(s, t, l) == [swiperId |-> s, targetId |-> t, isLike |-> l]

SwipeRequests ==
    { SwipeRequest(s, t, l) : s \in ReqIds, t \in ReqIds, l \in BOOLEAN }

\* The request slot of an exchange that is no validated Swipe.
NoSwipe == SwipeRequest(0, 0, FALSE)

\* The zero value of Match, what `var lastMatch Match` holds before the loop.
ZeroMatch == [user1Id |-> 0, user2Id |-> 0, timestamp |-> 0]

Min(a, b) == IF a <= b THEN a ELSE b
Max(a, b) == IF a >= b THEN a ELSE b

-----------------------------------------------------------------------------
(* The steps of Controller.Swipe, as functions of what they read.          *)

\* swiperExists / targetExists: one pass over c.storage.Users.
UserExists(users, id) == \E i \in 1..Len(users) : users[i].id = id

\* The validation loop looking for the swiper only.
BothExistSwiperOnly(users, req) == UserExists(users, req.swiperId)

BothExist(users, req) ==
    UserExists(users, req.swiperId) /\ UserExists(users, req.targetId)

\* The record appended to c.storage.Swipes: no look-up of an earlier record
\* of the same pair precedes the append.
NewSwipe(req, t) ==
    [swiperId |-> req.swiperId, targetId |-> req.targetId,
     isLike |-> req.isLike, timestamp |-> t]

\* The append that first drops the earlier records of the same ordered pair.
AppendSwipeReplacing(swipes, req, t) ==
    Append(SelectSeq(swipes, LAMBDA x : ~( /\ x.swiperId = req.swiperId
                                          /\ x.targetId = req.targetId )),
           NewSwipe(req, t))

AppendSwipe(swipes, req, t) == Append(swipes, NewSwipe(req, t))

\* The reciprocity scan with the `swipe.IsLike` test dropped.
IsMatchAnyDecision(swipes, req) ==
    /\ req.isLike
    /\ \E i \in 1..Len(swipes) :
          /\ swipes[i].swiperId = req.targetId
          /\ swipes[i].targetId = req.swiperId

\* The reciprocity scan run for a pass as for a like: the `if req.IsLike`
\* around the scan dropped.
IsMatchIgnoringOwnDecision(swipes, req) ==
    \E i \in 1..Len(swipes) :
        /\ swipes[i].swiperId = req.targetId
        /\ swipes[i].targetId = req.swiperId
        /\ swipes[i].isLike

\* The reciprocity scan deciding on the target's latest record only, so that
\* a pass after a like withdraws the like.
IsMatchLatestDecision(swipes, req) ==
    /\ req.isLike
    /\ \E i \in 1..Len(swipes) :
          /\ swipes[i].swiperId = req.targetId
          /\ swipes[i].targetId = req.swiperId
          /\ swipes[i].isLike
          /\ \A j \in (i + 1)..Len(swipes) :
                ~( /\ swipes[j].swiperId = req.targetId
                   /\ swipes[j].targetId = req.swiperId )

\* isMatch: the request is a like and some record of the ledger is a like in
\* the opposite direction.
IsMatch(swipes, req) ==
    /\ req.isLike
    /\ \E i \in 1..Len(swipes) :
          /\ swipes[i].swiperId = req.targetId
          /\ swipes[i].targetId = req.swiperId
          /\ swipes[i].isLike

\* matchExists: a record with the canonical pair (min, max) is present.
MatchExists(matches, req) ==
    \E i \in 1..Len(matches) :
        /\ matches[i].user1Id = Min(req.swiperId, req.targetId)
        /\ matches[i].user2Id = Max(req.swiperId, req.targetId)

NewMatch(req, t) ==
    [user1Id |-> Min(req.swiperId, req.targetId),
     user2Id |-> Max(req.swiperId, req.targetId),
     timestamp |-> t]

\* The match append without the matchExists guard.
RecordMatchNoDedup(matches, isMatch, req, t) ==
    IF isMatch THEN Append(matches, NewMatch(req, t)) ELSE matches

\* The match list after the `if isMatch { ... }` block.
RecordMatch(matches, isMatch, req, t) ==
    IF isMatch /\ ~MatchExists(matches, req)
    THEN Append(matches, NewMatch(req, t))
    ELSE matches

\* The lastMatch scan comparing the pair in the request's order only.
RECURSIVE LastMatchOneWay(_, _)
LastMatchOneWay(matches, req) ==
    IF matches = <<>> THEN ZeroMatch
    ELSE LET m == matches[Len(matches)]
         IN IF m.user1Id = req.swiperId /\ m.user2Id = req.targetId
            THEN m
            ELSE LastMatchOneWay(SubSeq(matches, 1, Len(matches) - 1), req)

\* lastMatch: the last record of the list whose pair is the request's pair in
\* either order; the zero Match when there is none.
RECURSIVE LastMatch(_, _)
LastMatch(matches, req) ==
    IF matches = <<>> THEN ZeroMatch
    ELSE LET m == matches[Len(matches)]
         IN IF \/ (m.user1Id = req.swiperId /\ m.user2Id = req.targetId)
               \/ (m.user1Id = req.targetId /\ m.user2Id = req.swiperId)
            THEN m
            ELSE LastMatch(SubSeq(matches, 1, Len(matches) - 1), req)

-----------------------------------------------------------------------------
(* Responses.  A JSON field that may be null is a sequence of at most one  *)
(* element.  An exchange keeps the request beside the response: `req` for  *)
(* a Swipe that passed validation, `id` for a request that names one user. *)

Response(op, id, req, status, isMatch, match, user, list) ==
    [op |-> op, id |-> id, req |-> req, status |-> status,
     isMatch |-> isMatch, match |-> match, user |-> user, list |-> list]

NoResponse == Response("none", 0, NoSwipe, 0, FALSE, <<>>, <<>>, <<>>)

\* http.Error(w, ..., status)
HttpError(op, id, req, status) ==
    Response(op, id, req, status, FALSE, <<>>, <<>>, <<>>)

\* {"success": true, "isMatch": isMatch, "match": lastMatch | nil}
SwipeResponse(matches, isMatch, req) ==
    Response("Swipe", 0, req, 200, isMatch,
             IF isMatch THEN <<LastMatch(matches, req)>> ELSE <<>>,
             <<>>, <<>>)

\* encoder.Encode(user) / encoder.Encode(list)
UserResponse(op, id, user) ==
    Response(op, id, NoSwipe, 200, FALSE, <<>>, <<user>>, <<>>)

ListResponse(op, id, list) ==
    Response(op, id, NoSwipe, 200, FALSE, <<>>, <<>>, list)

-----------------------------------------------------------------------------
(* The data file.  `data` is what a JSON decoder gets out of the content.  *)

\* No file: the state before the first successful save.
AbsentFile == [kind |-> "absent", data |-> ZeroStorage]

\* The indented JSON of a snapshot, as saveData writes it.
JsonFile(st) == [kind |-> "json", data |-> st]

\* A file cut short: not a JSON text.
TornFile == [kind |-> "torn", data |-> ZeroStorage]

\* A JSON text whose "matches" member is not an array, left by some other
\* writer: the members before it decode, the text as a whole does not.
MistypedFile(st) == [kind |-> "mistyped", data |-> st]

-----------------------------------------------------------------------------
(* saveData: MarshalIndent of the whole c.storage, then os.WriteFile.      *)
(* os.WriteFile opens the file with O_TRUNC, writes and closes.  It fails  *)
(* at the open, and the file is as it was, or after it, and the file is    *)
(* left cut short.                                                         *)

SaveOutcomes == {"ok", "failed", "torn"}

saveData(old, st, outcome) ==
    CASE outcome = "ok"     -> JsonFile(st)
      [] outcome = "failed" -> old
      [] outcome = "torn"   -> TornFile

-----------------------------------------------------------------------------
(* Start-up.                                                               *)

\* loadData, from the zero Storage of a new Controller: the error it returns
\* and what it leaves in c.storage.  os.ReadFile fails on a missing file;
\* json.Unmarshal rejects a text that is not JSON before it stores anything,
\* and on a member of the wrong type it keeps what it has decoded, skips the
\* member and returns the error at the end.
loadData(content) ==
    CASE content.kind = "absent"   -> [err |-> TRUE,  storage |-> ZeroStorage]
      [] content.kind = "torn"     -> [err |-> TRUE,  storage |-> ZeroStorage]
      [] content.kind = "mistyped" ->
            [err |-> TRUE, storage |-> [content.data EXCEPT !.Matches = <<>>]]
      [] content.kind = "json"     -> [err |-> FALSE, storage |-> content.data]

\* The fallback keeping what loadData left in c.storage and setting the
\* Users field alone.
NewControllerSeedUsersOnly(content) ==
    LET loaded == loadData(content)
    IN IF loaded.err
       THEN [loaded.storage EXCEPT !.Users = SeedUsers]
       ELSE loaded.storage

\* c.storage after NewController: on any error of loadData the whole
\* Storage is assigned anew, Users the three seed profiles, Swipes and
\* Matches nil.
NewController(content) ==
    LET loaded == loadData(content)
    IN IF loaded.err
       THEN SeedStorage
       ELSE loaded.storage

-----------------------------------------------------------------------------
(* The candidate scan of Controller.GetNextUser.                           *)

\* swiped: some record of the ledger goes from id to the user.
Swiped(swipes, id, userId) ==
    \E i \in 1..Len(swipes) :
        swipes[i].swiperId = id /\ swipes[i].targetId = userId

\* The profile test of the scan; the `user.ID == id` skip is commented out in
\* the source, so the requester's own profile is a candidate like any other.
IsCandidate(swipes, id, user) == ~Swiped(swipes, id, user.id)

\* Index of the first candidate at or after position i, 0 when there is none.
RECURSIVE FirstCandidate(_, _, _, _)
FirstCandidate(users, swipes, id, i) ==
    IF i > Len(users) THEN 0
    ELSE IF IsCandidate(swipes, id, users[i]) THEN i
    ELSE FirstCandidate(users, swipes, id, i + 1)

GetNextUserResponse(st, id) ==
    LET i == FirstCandidate(st.Users, st.Swipes, id, 1)
    IN IF i = 0 THEN HttpError("GetNextUser", id, NoSwipe, 404)
       ELSE UserResponse("GetNextUser", id, st.Users[i])

\* userMatches of Controller.GetMatches, in list order.
RECURSIVE UserMatches(_, _)
UserMatches(matches, id) ==
    IF matches = <<>> THEN <<>>
    ELSE LET m    == matches[Len(matches)]
             rest == UserMatches(SubSeq(matches, 1, Len(matches) - 1), id)
         IN IF m.user1Id = id \/ m.user2Id = id THEN Append(rest, m) ELSE rest

-----------------------------------------------------------------------------
(* The state after NewController when the data file is missing.            *)

\* The fields of the multipart form that the handler reads: the "id" value,
\* 0 when the field is empty or "0" (both leave userID at 0); whether an
\* "image" part came with it; `info` for time, day, textInfo and trainType.
Form(id, image, info) == [id |-> id, image |-> image, info |-> info]

\* The zero values of a handler's locals.
NoForm   == Form(0, FALSE, "")
ZeroUser == User(0, "", "")

\* The goroutines net/http runs handlers on.
Procs == {"h1", "h2"}

\* A goroutine that is serving nothing.
IdleProc ==
    [pc |-> "idle", op |-> "none", req |-> NoSwipe, swipes |-> <<>>,
     matches |-> <<>>, ts |-> 0, isMatch |-> FALSE, snap |-> ZeroStorage,
     form |-> NoForm, user |-> ZeroUser, users |-> <<>>]

Init ==
    /\ file = AbsentFile
    /\ storage = NewController(file)
    /\ now = 1
    /\ resp = NoResponse
    /\ proc = [p \in Procs |-> IdleProc]
    /\ started = 0
    /\ acked = <<>>

-----------------------------------------------------------------------------
(* Handlers, one request at a time.                                        *)

\* The storage a valid Swipe leaves behind: the append, the reciprocity scan
\* over the ledger that already holds the new record, the match append.
\* time.Now() is read for the swipe and, when a match is created, again.
SwipeStorage(st, req, t) ==
    LET swipes == AppendSwipe(st.Swipes, req, t)
    IN [st EXCEPT !.Swipes  = swipes,
                  !.Matches = RecordMatch(st.Matches, IsMatch(swipes, req),
                                          req, t + 1)]

ClockAfterSwipe(st, req, t) ==
    IF Len(SwipeStorage(st, req, t).Matches) > Len(st.Matches)
    THEN t + 2 ELSE t + 1

\* Controller.Swipe, the early return at lines 338-341.
SwipeNotFound(req) ==
    /\ ~BothExist(storage.Users, req)
    /\ resp' = HttpError("Swipe", 0, NoSwipe, 404)
    /\ UNCHANGED <<storage, file, now, concVars>>

\* Controller.Swipe past the validation: the mutation, saveData, the answer.
Swipe(req, outcome) ==
    /\ BothExist(storage.Users, req)
    /\ Len(storage.Swipes) < MaxSwipes
    /\ storage' = SwipeStorage(storage, req, now)
    /\ now' = ClockAfterSwipe(storage, req, now)
    /\ file' = saveData(file, storage', outcome)
    /\ resp' = IF outcome = "ok"
               THEN SwipeResponse(storage'.Matches,
                                  IsMatch(storage'.Swipes, req), req)
               ELSE HttpError("Swipe", 0, req, 500)
    /\ UNCHANGED concVars

GetNextUser(id) ==
    /\ resp' = GetNextUserResponse(storage, id)
    /\ UNCHANGED <<storage, file, now, concVars>>

GetMatches(id) ==
    /\ resp' = ListResponse("GetMatches", id,
                            UserMatches(storage.Matches, id))
    /\ UNCHANGED <<storage, file, now, concVars>>

GetUsers ==
    /\ resp' = ListResponse("GetUsers", 0, storage.Users)
    /\ UNCHANGED <<storage, file, now, concVars>>

Next ==
    \/ \E req \in SwipeRequests : SwipeNotFound(req)
    \/ \E req \in SwipeRequests, outcome \in SaveOutcomes : Swipe(req, outcome)
    \/ \E id \in ReqIds : GetNextUser(id)
    \/ \E id \in ReqIds : GetMatches(id)
    \/ GetUsers

Spec == Init /\ [][Next]_vars

-----------------------------------------------------------------------------
(* Controller.AddProfile.                                                  *)

UploadedImage == "/images/upload.jpg"
DefaultImage  == "/images/default.jpg"

\* Two's complement wrap-around of the identifier type.
Wrap(n) == ((n - MinId) % (2 ^ IdBits)) + MinId

\* maxID of generateNewUserID after the users up to position i.
RECURSIVE MaxUserID(_, _)
MaxUserID(users, i) ==
    IF i = 0 THEN 0
    ELSE LET maxID == MaxUserID(users, i - 1)
         IN IF users[i].id > maxID THEN users[i].id ELSE maxID

generateNewUserID(users) == Wrap(MaxUserID(users, Len(users)) + 1)

\* Position of the first profile with the identifier, 0 when there is none:
\* the search loop breaks at the first hit.
RECURSIVE FindUser(_, _, _)
FindUser(users, userID, i) ==
    IF i > Len(users) THEN 0
    ELSE IF users[i].id = userID THEN i
    ELSE FindUser(users, userID, i + 1)

\* The profile at a hit after the assignments of lines 178-184.
UpdatedUser(u, form) ==
    [u EXCEPT !.imageUrl = IF form.image THEN UploadedImage ELSE @,
              !.info = form.info]

\* The profile appended when the search found nothing.
NewUser(users, form) ==
    User(IF form.id = 0 THEN generateNewUserID(users) ELSE form.id,
         IF form.image THEN UploadedImage ELSE DefaultImage,
         form.info)

\* c.storage.Users after lines 173-201 and the profile that is encoded.
UpsertUser(users, form) ==
    LET i == FindUser(users, form.id, 1)
    IN IF i # 0
       THEN [users |-> [users EXCEPT ![i] = UpdatedUser(users[i], form)],
             user  |-> UpdatedUser(users[i], form)]
       ELSE [users |-> Append(users, NewUser(users, form)),
             user  |-> NewUser(users, form)]

\* The upsert has room under the bound: it updates, or the list is short.
Fits(form, bound) ==
    FindUser(storage.Users, form.id, 1) # 0 \/ Len(storage.Users) < bound

\* 400 for a form or an id that does not parse, 500 for an image that could
\* not be stored: both before c.storage is read.
AddProfileRejected(status) ==
    /\ resp' = HttpError("AddProfile", 0, NoSwipe, status)
    /\ UNCHANGED <<storage, file, now, concVars>>

\* Controller.AddProfile past the parsing: the upsert, saveData, the answer.
AddProfile(form, outcome) ==
    /\ storage' = [storage EXCEPT !.Users = UpsertUser(@, form).users]
    /\ file' = saveData(file, storage', outcome)
    /\ resp' = IF outcome = "ok"
               THEN UserResponse("AddProfile", form.id,
                                 UpsertUser(storage.Users, form).user)
               ELSE HttpError("AddProfile", form.id, NoSwipe, 500)
    /\ UNCHANGED <<now, concVars>>

\* AddProfile while the profile list has room under the bound.
BoundedAddProfile(form, outcome, bound) ==
    Fits(form, bound) /\ AddProfile(form, outcome)

\* Swipe while the ledger is shorter than the bound.
BoundedSwipe(req, outcome, bound) ==
    Len(storage.Swipes) < bound /\ Swipe(req, outcome)

-----------------------------------------------------------------------------
(* AddProfile on its own, up to the ends of the identifier range.          *)

\* An omitted id, the id of a seeded profile, and the largest identifier.
ProfileFormIds == {0, 1, MaxId}

ProfileForms == { Form(id, image, "form") : id \in ProfileFormIds,
                                            image \in BOOLEAN }

NextProfiles ==
    \/ \E form \in ProfileForms, outcome \in SaveOutcomes :
          BoundedAddProfile(form, outcome, MaxUsers)
    \/ \E status \in {400, 500} : AddProfileRejected(status)
    \/ GetUsers

SpecProfiles == Init /\ [][NextProfiles]_vars

-----------------------------------------------------------------------------
(* All handlers, one request at a time.                                    *)

\* Likes and passes between profiles 1 and 2, and swipes naming no profile.
AllSwipeRequests ==
    { SwipeRequest(s, t, l) : s \in {1, 2}, t \in {1, 2}, l \in BOOLEAN }
        \ { SwipeRequest(s, s, l) : s \in {1, 2}, l \in BOOLEAN }

UnknownSwipeRequests == { SwipeRequest(0, 1, TRUE), SwipeRequest(1, 0, TRUE) }

\* The reads are those of profile 1.

\* A new profile without an image, and new fields and a new image for
\* profile 1.
AllForms == { Form(0, FALSE, "form"), Form(1, TRUE, "form") }

NextAll ==
    \/ \E req \in UnknownSwipeRequests : SwipeNotFound(req)
    \/ \E req \in AllSwipeRequests, outcome \in SaveOutcomes :
          BoundedSwipe(req, outcome, MaxAllSwipes)
    \/ \E form \in AllForms, outcome \in SaveOutcomes :
          BoundedAddProfile(form, outcome, MaxAllUsers)
    \/ \E status \in {400, 500} : AddProfileRejected(status)
    \/ GetNextUser(1)
    \/ GetMatches(1)
    \/ GetUsers

SpecAll == Init /\ [][NextAll]_vars

-----------------------------------------------------------------------------
(* Start-up over whatever the data file holds, and starting again.         *)

\* A snapshot left by an earlier run: 1 and 2 liked each other.
EarlierLike     == SwipeStorage(SeedStorage, SwipeRequest(1, 2, TRUE), 1)
EarlierSnapshot ==
    SwipeStorage(EarlierLike, SwipeRequest(2, 1, TRUE),
                 ClockAfterSwipe(SeedStorage, SwipeRequest(1, 2, TRUE), 1))
EarlierClock    ==
    ClockAfterSwipe(EarlierLike, SwipeRequest(2, 1, TRUE),
                    ClockAfterSwipe(SeedStorage, SwipeRequest(1, 2, TRUE), 1))

\* What main may find at c.dataFile: nothing, a file cut short by a failed
\* save, a JSON text with a member of the wrong type, an intact snapshot.
StartFiles ==
    { AbsentFile, TornFile, MistypedFile(EarlierSnapshot),
      JsonFile(EarlierSnapshot) }

InitStart ==
    /\ file \in StartFiles
    /\ storage = NewController(file)
    /\ now = EarlierClock
    /\ resp = NoResponse
    /\ proc = [p \in Procs |-> IdleProc]
    /\ started = 0
    /\ acked = <<>>

\* The process ends and main runs again: a new Controller over the file as
\* the last run left it.
Restart ==
    /\ now < MaxRestartClock
    /\ storage' = NewController(file)
    /\ resp' = NoResponse
    /\ UNCHANGED <<file, now, concVars>>

NextStart ==
    \/ Restart
    \/ \E req \in AllSwipeRequests, outcome \in SaveOutcomes :
          BoundedSwipe(req, outcome, MaxSwipes)
    \/ GetUsers

SpecStart == InitStart /\ [][NextStart]_vars

-----------------------------------------------------------------------------
(* Controller.Swipe on concurrent goroutines.  Controller holds no mutex,  *)
(* so every read and every write of c.storage is a step of its own and     *)
(* the steps of two handlers interleave.  `x = append(x, e)` reads the     *)
(* slice, then stores the extended slice: a store overwrites whatever was  *)
(* stored in between.                                                      *)

Goto(p, label) == [proc EXCEPT ![p].pc = label]

\* The handler answers and its goroutine ends.
Finish(p, response) ==
    /\ resp' = response
    /\ proc' = [proc EXCEPT ![p] = IdleProc]

\* Lines 328-341: the request arrives and the users are scanned.
CheckUsers(p, req) ==
    /\ proc[p].pc = "idle"
    /\ started < MaxRequests
    /\ started' = started + 1
    /\ IF BothExist(storage.Users, req)
       THEN /\ proc' = [proc EXCEPT ![p].pc = "loadSwipes", ![p].op = "Swipe",
                                    ![p].req = req]
            /\ UNCHANGED resp
       ELSE Finish(p, HttpError("Swipe", 0, NoSwipe, 404))
    /\ UNCHANGED <<storage, file, now, acked>>

\* Line 343, right-hand side: c.storage.Swipes and time.Now() are read.
LoadSwipes(p) ==
    /\ proc[p].pc = "loadSwipes"
    /\ proc' = [proc EXCEPT ![p].pc = "storeSwipes",
                            ![p].swipes = storage.Swipes,
                            ![p].ts = now]
    /\ now' = now + 1
    /\ UNCHANGED <<storage, file, resp, started, acked>>

\* Line 343, the assignment to c.storage.Swipes.
StoreSwipes(p) ==
    /\ proc[p].pc = "storeSwipes"
    /\ storage' = [storage EXCEPT !.Swipes =
                       AppendSwipe(proc[p].swipes, proc[p].req, proc[p].ts)]
    /\ proc' = [proc EXCEPT ![p].pc = "scanSwipes", ![p].swipes = <<>>,
                            ![p].ts = 0]
    /\ UNCHANGED <<file, now, resp, started, acked>>

\* Lines 350-360: the reciprocity scan.
ScanSwipes(p) ==
    /\ proc[p].pc = "scanSwipes"
    /\ LET isMatch == IsMatch(storage.Swipes, proc[p].req)
       IN proc' = [proc EXCEPT ![p].isMatch = isMatch,
                               ![p].pc = IF isMatch THEN "scanMatches"
                                         ELSE "marshal"]
    /\ UNCHANGED <<storage, file, now, resp, started, acked>>

\* Lines 362-374: matchExists.
ScanMatches(p) ==
    /\ proc[p].pc = "scanMatches"
    /\ proc' = Goto(p, IF MatchExists(storage.Matches, proc[p].req)
                       THEN "marshal" ELSE "loadMatches")
    /\ UNCHANGED <<storage, file, now, resp, started, acked>>

\* Line 375, right-hand side: c.storage.Matches and time.Now() are read.
LoadMatches(p) ==
    /\ proc[p].pc = "loadMatches"
    /\ proc' = [proc EXCEPT ![p].pc = "storeMatches",
                            ![p].matches = storage.Matches,
                            ![p].ts = now]
    /\ now' = now + 1
    /\ UNCHANGED <<storage, file, resp, started, acked>>

\* Line 375, the assignment to c.storage.Matches.
StoreMatches(p) ==
    /\ proc[p].pc = "storeMatches"
    /\ storage' = [storage EXCEPT !.Matches =
                       Append(proc[p].matches,
                              NewMatch(proc[p].req, proc[p].ts))]
    /\ proc' = [proc EXCEPT ![p].pc = "marshal", ![p].matches = <<>>,
                            ![p].ts = 0]
    /\ UNCHANGED <<file, now, resp, started, acked>>

\* saveData, line 108: the snapshot is serialized.
Marshal(p) ==
    /\ proc[p].pc = "marshal"
    /\ proc' = [proc EXCEPT ![p].pc = "write", ![p].snap = storage]
    /\ UNCHANGED <<storage, file, now, resp, started, acked>>

\* saveData, line 113, and the handler's error return at lines 383-387 and
\* 203-207.
WriteFile(p, outcome) ==
    /\ proc[p].pc = "write"
    /\ file' = saveData(file, proc[p].snap, outcome)
    /\ IF outcome = "ok"
       THEN /\ proc' = [proc EXCEPT ![p].pc = IF proc[p].op = "Swipe"
                                              THEN "respond"
                                              ELSE "encodeUser",
                                    ![p].snap = ZeroStorage]
            /\ UNCHANGED resp
       ELSE Finish(p, HttpError(proc[p].op, proc[p].form.id,
                                proc[p].req, 500))
    /\ UNCHANGED <<storage, now, started, acked>>

\* Lines 389-411: the response, with lastMatch read from c.storage.Matches.
Respond(p) ==
    /\ proc[p].pc = "respond"
    /\ Finish(p, SwipeResponse(storage.Matches, proc[p].isMatch, proc[p].req))
    /\ acked' = Append(acked, proc[p].req)
    /\ UNCHANGED <<storage, file, now, started>>

\* AddProfile, lines 120-171: the form is parsed into the local user.
ParseForm(p, form) ==
    /\ proc[p].pc = "idle"
    /\ started < MaxRequests
    /\ started' = started + 1
    /\ proc' = [proc EXCEPT ![p].pc = "findUser", ![p].op = "AddProfile",
                            ![p].form = form]
    /\ UNCHANGED <<storage, file, now, resp, acked>>

\* Lines 173-195: the search loop with the update in place at a hit, and
\* without a hit the image and the id of the form for the new profile.
FindAndUpdate(p) ==
    /\ proc[p].pc = "findUser"
    /\ LET form == proc[p].form
           i    == FindUser(storage.Users, form.id, 1)
       IN IF i # 0
          THEN /\ storage' = [storage EXCEPT
                                 !.Users[i] = UpdatedUser(@, form)]
               /\ proc' = [proc EXCEPT
                              ![p].pc = "marshal",
                              ![p].user = UpdatedUser(storage.Users[i], form)]
          ELSE /\ proc' = [proc EXCEPT
                              ![p].pc = IF form.id = 0 THEN "generateID"
                                        ELSE "loadUsers",
                              ![p].user =
                                  User(form.id,
                                       IF form.image THEN UploadedImage
                                       ELSE DefaultImage,
                                       form.info)]
               /\ UNCHANGED storage
    /\ UNCHANGED <<file, now, resp, started, acked>>

\* Lines 196-199: generateNewUserID reads c.storage.Users.
GenerateID(p) ==
    /\ proc[p].pc = "generateID"
    /\ proc' = [proc EXCEPT ![p].pc = "loadUsers",
                            ![p].user.id = generateNewUserID(storage.Users)]
    /\ UNCHANGED <<storage, file, now, resp, started, acked>>

\* Line 200, right-hand side: c.storage.Users is read.
LoadUsers(p) ==
    /\ proc[p].pc = "loadUsers"
    /\ proc' = [proc EXCEPT ![p].pc = "storeUsers",
                            ![p].users = storage.Users]
    /\ UNCHANGED <<storage, file, now, resp, started, acked>>

\* Line 200, the assignment to c.storage.Users.
StoreUsers(p) ==
    /\ proc[p].pc = "storeUsers"
    /\ storage' = [storage EXCEPT !.Users =
                       Append(proc[p].users, proc[p].user)]
    /\ proc' = [proc EXCEPT ![p].pc = "marshal", ![p].users = <<>>]
    /\ UNCHANGED <<file, now, resp, started, acked>>

\* Lines 209-210: the local user is encoded.
EncodeUser(p) ==
    /\ proc[p].pc = "encodeUser"
    /\ Finish(p, UserResponse("AddProfile", proc[p].form.id, proc[p].user))
    /\ UNCHANGED <<storage, file, now, started, acked>>

\* Forms of the concurrent requests: a new profile with no id, and new
\* fields for profile 1.
ConcForms == { Form(0, FALSE, "form"), Form(1, TRUE, "form") }

NextConc ==
    \/ \E p \in Procs, req \in SwipeRequests : CheckUsers(p, req)
    \/ \E p \in Procs, form \in ConcForms : ParseForm(p, form)
    \/ \E p \in Procs : FindAndUpdate(p)
    \/ \E p \in Procs : GenerateID(p)
    \/ \E p \in Procs : LoadUsers(p)
    \/ \E p \in Procs : StoreUsers(p)
    \/ \E p \in Procs : EncodeUser(p)
    \/ \E p \in Procs : LoadSwipes(p)
    \/ \E p \in Procs : StoreSwipes(p)
    \/ \E p \in Procs : ScanSwipes(p)
    \/ \E p \in Procs : ScanMatches(p)
    \/ \E p \in Procs : LoadMatches(p)
    \/ \E p \in Procs : StoreMatches(p)
    \/ \E p \in Procs : Marshal(p)
    \/ \E p \in Procs, outcome \in SaveOutcomes : WriteFile(p, outcome)
    \/ \E p \in Procs : Respond(p)

SpecConc == Init /\ [][NextConc]_vars

\* The same handlers when no save fails.
NextConcSaved ==
    \/ \E p \in Procs, req \in SwipeRequests : CheckUsers(p, req)
    \/ \E p \in Procs, form \in ConcForms : ParseForm(p, form)
    \/ \E p \in Procs : FindAndUpdate(p)
    \/ \E p \in Procs : GenerateID(p)
    \/ \E p \in Procs : LoadUsers(p)
    \/ \E p \in Procs : StoreUsers(p)
    \/ \E p \in Procs : EncodeUser(p)
    \/ \E p \in Procs : LoadSwipes(p)
    \/ \E p \in Procs : StoreSwipes(p)
    \/ \E p \in Procs : ScanSwipes(p)
    \/ \E p \in Procs : ScanMatches(p)
    \/ \E p \in Procs : LoadMatches(p)
    \/ \E p \in Procs : StoreMatches(p)
    \/ \E p \in Procs : Marshal(p)
    \/ \E p \in Procs : WriteFile(p, "ok")
    \/ \E p \in Procs : Respond(p)

SpecConcSaved == Init /\ [][NextConcSaved]_vars

-----------------------------------------------------------------------------
(* Vocabulary of the properties.                                           *)

\* The ledger holds a like from a to b.
Likes(swipes, a, b) ==
    \E i \in 1..Len(swipes) :
        swipes[i].swiperId = a /\ swipes[i].targetId = b /\ swipes[i].isLike

\* The positions of the match records of the unordered pair {a, b}.
MatchesOfPair(matches, a, b) ==
    { i \in 1..Len(matches) : {matches[i].user1Id, matches[i].user2Id} = {a, b} }

\* The records of the ledger between a and b, in either direction, in order.
Between(swipes, a, b) ==
    SelectSeq(swipes, LAMBDA x : {x.swiperId, x.targetId} = {a, b})

IsLikeFrom(x, a, b) == x.swiperId = a /\ x.targetId = b /\ x.isLike

AllIdle == \A p \in Procs : proc[p].pc = "idle"

\* Occurrences of request r among the records of a sequence.
Count(seq, r) ==
    Cardinality({ i \in 1..Len(seq) :
                    /\ seq[i].swiperId = r.swiperId
                    /\ seq[i].targetId = r.targetId
                    /\ seq[i].isLike = r.isLike })

-----------------------------------------------------------------------------
(* Properties.                                                             *)

\* C1: the swipe ledger never holds two records with the same ordered pair
\* (swiperId, targetId).  Stated for pairs of two different users, so that a
\* violation does not rest on a user swiping on themselves.
C1_NoDuplicateLedgerEntries ==
    \A i, j \in 1..Len(storage.Swipes) :
        ( /\ storage.Swipes[i].swiperId = storage.Swipes[j].swiperId
          /\ storage.Swipes[i].targetId = storage.Swipes[j].targetId
          /\ storage.Swipes[i].swiperId # storage.Swipes[i].targetId ) => i = j

\* C2: whenever the ledger holds a like from a to b and a like from b to a,
\* the match list holds exactly one record of the unordered pair {a, b}.
C2_MatchSymmetryUniqueness ==
    \A a, b \in ReqIds :
        (Likes(storage.Swipes, a, b) /\ Likes(storage.Swipes, b, a))
            => Cardinality(MatchesOfPair(storage.Matches, a, b)) = 1

\* C2 witness: 1 and 2 liked each other, one of the likes was repeated, and
\* there is one match record of the pair.
C2_Witness ==
    /\ Len(storage.Swipes) = 3
    /\ \A i \in 1..3 : storage.Swipes[i].isLike
    /\ \A i \in 1..3 :
          {storage.Swipes[i].swiperId, storage.Swipes[i].targetId} = {1, 2}
    /\ Likes(storage.Swipes, 1, 2) /\ Likes(storage.Swipes, 2, 1)
    /\ Cardinality(MatchesOfPair(storage.Matches, 1, 2)) = 1

\* C3: a Swipe of an existing user on themselves is answered 400 and leaves
\* no trace: no ledger record and no match record of a user with themselves.
C3_SelfSwipeRejected ==
    /\ ( /\ resp.op = "Swipe"
         /\ resp.req.swiperId = resp.req.targetId
         /\ UserExists(storage.Users, resp.req.swiperId) ) => resp.status = 400
    /\ \A i \in 1..Len(storage.Swipes) :
          storage.Swipes[i].swiperId # storage.Swipes[i].targetId
    /\ \A i \in 1..Len(storage.Matches) :
          storage.Matches[i].user1Id # storage.Matches[i].user2Id

\* C4: a profile returned by GetNextUser(a) is not a's own and is not one a
\* has a swipe record on.
C4_CandidateExclusion ==
    (resp.op = "GetNextUser" /\ resp.status = 200) =>
        /\ resp.user[1].id # resp.id
        /\ ~Swiped(storage.Swipes, resp.id, resp.user[1].id)

\* The positions of the profiles GetNextUser(a) is specified to choose from.
Eligible(st, a) ==
    { i \in 1..Len(st.Users) :
        st.Users[i].id # a /\ ~Swiped(st.Swipes, a, st.Users[i].id) }

\* C5: for an existing user a, GetNextUser(a) returns the first profile in
\* list order that is not a's own and not swiped on by a, and 404 exactly
\* when there is no such profile.
C5_FirstUnswipedOther ==
    (resp.op = "GetNextUser" /\ UserExists(storage.Users, resp.id)) =>
        LET el == Eligible(storage, resp.id)
        IN IF el = {} THEN resp.status = 404
           ELSE /\ resp.status = 200
                /\ resp.user =
                     << storage.Users[CHOOSE i \in el : \A j \in el : i <= j] >>

\* The step is a Swipe that passed validation.
ValidSwipeStep ==
    /\ resp'.op = "Swipe"
    /\ Len(storage'.Swipes) = Len(storage.Swipes) + 1

\* C6, first like: no record between a and b yet, so no match is created and
\* the answer is isMatch = false with a null match.
C6_FirstLike(a, b) ==
    Between(storage.Swipes, a, b) = <<>> =>
        /\ storage'.Matches = storage.Matches
        /\ resp'.status = 200 => (~resp'.isMatch /\ resp'.match = <<>>)

\* C6, the like back: the one record between them is a like from b to a, so
\* the record (min, max) is appended and returned.
C6_LikeBack(a, b) ==
    ( /\ Len(Between(storage.Swipes, a, b)) = 1
      /\ IsLikeFrom(Between(storage.Swipes, a, b)[1], b, a) ) =>
        LET created == storage'.Matches[Len(storage'.Matches)]
        IN /\ Len(storage'.Matches) = Len(storage.Matches) + 1
           /\ SubSeq(storage'.Matches, 1, Len(storage.Matches)) = storage.Matches
           /\ created.user1Id = Min(a, b) /\ created.user2Id = Max(a, b)
           /\ resp'.status = 200 =>
                 (resp'.isMatch /\ resp'.match = <<created>>)

\* C6, any further like: a liked b, b liked back, and a likes b again. The
\* match list is unchanged and the record of the pair is returned.
C6_FurtherLike(a, b) ==
    LET bt == Between(storage.Swipes, a, b)
    IN ( /\ Len(bt) >= 2
         /\ IsLikeFrom(bt[1], a, b)
         /\ IsLikeFrom(bt[2], b, a)
         /\ \A i \in 3..Len(bt) : IsLikeFrom(bt[i], a, b) ) =>
        /\ storage'.Matches = storage.Matches
        /\ resp'.status = 200 =>
              /\ resp'.isMatch
              /\ Len(resp'.match) = 1
              /\ \E i \in MatchesOfPair(storage.Matches, a, b) :
                    resp'.match[1] = storage.Matches[i]
              /\ resp'.match[1].user1Id = Min(a, b)
              /\ resp'.match[1].user2Id = Max(a, b)

\* C6: for distinct existing users a and b, Swipe(a, b, true) with no record
\* between them yet creates no match and answers isMatch = false; the like
\* back creates the match (min, max) and answers isMatch = true with it; any
\* further like answers isMatch = true with that record and leaves the match
\* list as it is.  (The answer is read where the handler gives one, that is
\* where saveData succeeded.)
C6_MutualLikeScenario ==
    [][ ( /\ ValidSwipeStep
          /\ resp'.req.isLike
          /\ resp'.req.swiperId # resp'.req.targetId ) =>
            /\ C6_FirstLike(resp'.req.swiperId, resp'.req.targetId)
            /\ C6_LikeBack(resp'.req.swiperId, resp'.req.targetId)
            /\ C6_FurtherLike(resp'.req.swiperId, resp'.req.targetId) ]_vars

\* C6 witness: a liked b, b liked back, a liked b again and was answered
\* isMatch = true with the one match record, created by the second like.
C6_Witness ==
    /\ Len(storage.Swipes) = 3
    /\ IsLikeFrom(storage.Swipes[1], 2, 1)
    /\ IsLikeFrom(storage.Swipes[2], 1, 2)
    /\ IsLikeFrom(storage.Swipes[3], 2, 1)
    /\ resp.op = "Swipe" /\ resp.status = 200 /\ resp.isMatch
    /\ Len(storage.Matches) = 1
    /\ resp.match = <<storage.Matches[1]>>
    /\ storage.Matches[1].user1Id = 1 /\ storage.Matches[1].user2Id = 2
    /\ storage.Matches[1].timestamp < storage.Swipes[3].timestamp

\* C7: every match record holds two distinct identifiers, the smaller first.
C7_CanonicalDistinctPair ==
    \A i \in 1..Len(storage.Matches) :
        storage.Matches[i].user1Id < storage.Matches[i].user2Id

\* C8: under any interleaving of Swipe handlers the match list never holds
\* two records of the same unordered pair.  Stated for pairs of two different
\* users, so that a violation does not rest on a user liking themselves.
C8_AtMostOneMatchPerPair ==
    \A i, j \in 1..Len(storage.Matches) :
        ( /\ {storage.Matches[i].user1Id, storage.Matches[i].user2Id}
               = {storage.Matches[j].user1Id, storage.Matches[j].user2Id}
          /\ storage.Matches[i].user1Id # storage.Matches[i].user2Id ) => i = j

\* C9: once no handler is running, the ledger holds a record for every Swipe
\* request that was answered with success.  Stated for requests between two
\* different users.
C9_NoLostSwipe ==
    AllIdle =>
        \A i \in 1..Len(acked) :
            acked[i].swiperId # acked[i].targetId =>
                Count(storage.Swipes, acked[i]) >= Count(acked, acked[i])

\* C10: a match record of {a, b} exists only if the ledger holds a like from
\* a to b and a like from b to a.
C10_MatchOnlyFromMutualLikes ==
    \A i \in 1..Len(storage.Matches) :
        /\ Likes(storage.Swipes, storage.Matches[i].user1Id,
                 storage.Matches[i].user2Id)
        /\ Likes(storage.Swipes, storage.Matches[i].user2Id,
                 storage.Matches[i].user1Id)

\* C10 witness: the like that was answered last found the like back and
\* created the match of 1 and 2, while 1's pass on 2 before it created none.
C10_Witness ==
    /\ Len(storage.Swipes) = 3
    /\ storage.Swipes[1].swiperId = 1 /\ storage.Swipes[1].targetId = 2
    /\ ~storage.Swipes[1].isLike
    /\ IsLikeFrom(storage.Swipes[2], 2, 1)
    /\ IsLikeFrom(storage.Swipes[3], 1, 2)
    /\ resp.op = "Swipe" /\ resp.isMatch
    /\ Cardinality(MatchesOfPair(storage.Matches, 1, 2)) = 1

\* C11: a Swipe with isLike = false leaves the match list as it was, no
\* record added and none removed, and is answered isMatch = false with a
\* null match, whatever the ledger and the match list hold, a like from the
\* target and a match of the pair included.
C11_PassLeavesMatches ==
    [][ (ValidSwipeStep /\ ~resp'.req.isLike) =>
            /\ storage'.Matches = storage.Matches
            /\ resp'.status = 200 => (~resp'.isMatch /\ resp'.match = <<>>)
      ]_vars

\* C11 witness: 1 passed on 2 after 2 had liked 1 and while the match of 1
\* and 2 was recorded; the pass was answered isMatch = false, match null, and
\* the match is still there.
C11_Witness ==
    /\ resp.op = "Swipe" /\ resp.status = 200
    /\ resp.req = SwipeRequest(1, 2, FALSE)
    /\ ~resp.isMatch /\ resp.match = <<>>
    /\ Len(storage.Swipes) = 3
    /\ storage.Swipes[3].swiperId = 1 /\ storage.Swipes[3].targetId = 2
    /\ ~storage.Swipes[3].isLike
    /\ Likes(storage.Swipes, 2, 1)
    /\ Cardinality(MatchesOfPair(storage.Matches, 1, 2)) = 1

\* C12: a Swipe whose swiperId or targetId is not the id of a profile is
\* answered 404 before anything is touched.  Such a request cannot take the
\* path that appends; the step that answers 404 leaves the ledger, the match
\* list, the profile list and the file as they were; and every step that
\* did append was for two ids of the profile list.
C12_UnknownUserSwipeChangesNothing ==
    /\ [](\A req \in SwipeRequests :
            ~(UserExists(storage.Users, req.swiperId)
                /\ UserExists(storage.Users, req.targetId)) =>
                /\ ENABLED SwipeNotFound(req)
                /\ \A outcome \in SaveOutcomes : ~ENABLED Swipe(req, outcome))
    /\ [][ /\ (resp'.op = "Swipe" /\ resp'.status = 404) =>
                (storage' = storage /\ file' = file)
           /\ ValidSwipeStep =>
                /\ UserExists(storage.Users, resp'.req.swiperId)
                /\ UserExists(storage.Users, resp'.req.targetId)
         ]_vars

\* C12 witness: a Swipe was answered 404 while the ledger, the match list
\* and the file held the records of earlier swipes.
C12_Witness ==
    /\ resp.op = "Swipe" /\ resp.status = 404
    /\ Len(storage.Swipes) = 2 /\ Len(storage.Matches) = 1
    /\ file = JsonFile(storage)

\* C17: GetNextUser for an id that is not the id of a profile is answered
\* 400 and returns no profile.
C17_UnknownActorRejected ==
    (resp.op = "GetNextUser" /\ ~UserExists(storage.Users, resp.id)) =>
        (resp.status = 400 /\ resp.user = <<>>)

\* C20: a like from a to b, two different users, is answered isMatch = true
\* exactly when the ledger holds a like from b to a at that moment, a pass
\* from b to a recorded after it or not; then a match record of the pair is
\* present, and otherwise the match list is as it was.
C20_LikeMatchesIffReciprocalLike ==
    [][ ( /\ ValidSwipeStep
          /\ resp'.req.isLike
          /\ resp'.req.swiperId # resp'.req.targetId ) =>
            LET a == resp'.req.swiperId
                b == resp'.req.targetId
            IN /\ Likes(storage.Swipes, b, a) =>
                    /\ MatchesOfPair(storage'.Matches, a, b) # {}
                    /\ resp'.status = 200 => resp'.isMatch
               /\ ~Likes(storage.Swipes, b, a) =>
                    /\ storage'.Matches = storage.Matches
                    /\ resp'.status = 200 => ~resp'.isMatch
      ]_vars

\* C20 witness: 2 liked 1, then passed on 1, and the like of 1 for 2 that
\* followed was answered isMatch = true and recorded the match.
C20_Witness ==
    /\ Len(storage.Swipes) = 3
    /\ IsLikeFrom(storage.Swipes[1], 2, 1)
    /\ storage.Swipes[2].swiperId = 2 /\ storage.Swipes[2].targetId = 1
    /\ ~storage.Swipes[2].isLike
    /\ IsLikeFrom(storage.Swipes[3], 1, 2)
    /\ resp.op = "Swipe" /\ resp.status = 200 /\ resp.isMatch
    /\ resp.req = SwipeRequest(1, 2, TRUE)
    /\ Cardinality(MatchesOfPair(storage.Matches, 1, 2)) = 1

\* C13: no two profiles of the list share an identifier.
C13_UniqueProfileIds ==
    \A i, j \in 1..Len(storage.Users) :
        storage.Users[i].id = storage.Users[j].id => i = j

\* C16: when saveData fails after a valid Swipe or AddProfile changed
\* c.storage, the request is answered 500, the change stays in c.storage (the
\* appended swipe and the matches, the inserted or updated profile), and the
\* file holds what it held before.
C16_FailedSaveKeepsMemoryAndFile ==
    [][ /\ \A req \in AllSwipeRequests, outcome \in SaveOutcomes \ {"ok"} :
              Swipe(req, outcome) =>
                  /\ resp'.status = 500
                  /\ Len(storage'.Swipes) = Len(storage.Swipes) + 1
                  /\ storage'.Swipes[Len(storage'.Swipes)] = NewSwipe(req, now)
                  /\ IsMatch(storage'.Swipes, req) =>
                        MatchesOfPair(storage'.Matches,
                                      req.swiperId, req.targetId) # {}
                  /\ file' = file
        /\ \A form \in AllForms, outcome \in SaveOutcomes \ {"ok"} :
              AddProfile(form, outcome) =>
                  /\ resp'.status = 500
                  /\ \E i \in 1..Len(storage'.Users) :
                        /\ form.id # 0 => storage'.Users[i].id = form.id
                        /\ form.id = 0 => i = Len(storage.Users) + 1
                        /\ storage'.Users[i].info = form.info
                  /\ file' = file
      ]_vars

\* s is an initial segment of t.
IsPrefix(s, t) == Len(s) <= Len(t) /\ SubSeq(t, 1, Len(s)) = s

C19_SeedOnUnreadableFile ==
    (resp = NoResponse /\ file.kind # "json") =>
        /\ storage = SeedStorage
        /\ Len(storage.Users) = 3
        /\ \A i \in 1..3 : storage.Users[i].id = i
        /\ storage.Swipes = <<>> /\ storage.Matches = <<>>

\* C19 witness: the Controller was constructed over a file whose decodable
\* part holds swipes, and c.storage has none of them.
C19_Witness ==
    /\ resp = NoResponse
    /\ file.kind = "mistyped"
    /\ loadData(file).err /\ loadData(file).storage.Swipes # <<>>
    /\ storage.Users = SeedUsers /\ storage.Swipes = <<>>

\* C14: under concurrent AddProfile requests without an id, the identifiers
\* of the profile list stay pairwise different.
C14_ConcurrentIdsDistinct ==
    \A i \in 1..Len(storage.Users) :
        \A j \in (i + 1)..Len(storage.Users) :
            storage.Users[i].id # storage.Users[j].id

\* C15: with every save succeeding, once no handler is running the file,
\* if a save was made, holds the snapshot that is in memory.  Stated for
\* ledgers in which nobody swiped on themselves.
C15_FileEqualsMemoryWhenIdle ==
    ( /\ AllIdle
      /\ file.kind = "json"
      /\ \A i \in 1..Len(storage.Swipes) :
            storage.Swipes[i].swiperId # storage.Swipes[i].targetId ) =>
        file.data = storage

=============================================================================
